---- MODULE Spec2Model ----
(***************************************************************************)
(* Reporting scripts over the urlwatch cache database (p4blo4p/bot).       *)
(*                                                                         *)
(* Spec: the state is the on-disk cache database (foreign, read by every   *)
(* script) and the outcome of one script execution.  Every script is a     *)
(* one-shot batch process that keeps nothing between executions: a         *)
(* behaviour is one execution of one script on one database, one action    *)
(* covering the run.  Orders that SQL leaves unspecified (rows that tie on  *)
(* the ORDER BY key, a SELECT without ORDER BY) are a choice over all       *)
(* orders the query may return.                                            *)
(*                                                                         *)
(* HooksSpec: the hooks urlwatch calls, on the history of the change       *)
(* tracker and its file.  FilesSpec: the scripts that read and write plain *)
(* files, extract_jobs and the log analysis of the GitHub report.          *)
(***************************************************************************)
EXTENDS Integers, Sequences, FiniteSets, TLC

VARIABLES db, run, files, history, changes_file, appended, clock, hook

vars == <<db, run, files, history, changes_file, appended, clock, hook>>

(***************************************************************************)
(* Nullable values: SQL NULL / Python None is the empty tuple, a value v   *)
(* is <<v>>.                                                               *)
(***************************************************************************)
None == <<>>

Some(x) == <<x>>

\* Largest number of rows of the cache table.
MaxRows == 2

(***************************************************************************)
(* Jobs, URLs and identifiers.                                             *)
(***************************************************************************)
U_UCA == "https://personal.uca.es/oposiciones-turno-libre/"

U_INAP == "https://buscadorcursos.inap.es/#/?abierto=true&funcion=6"

U_TABLON == "https://puertoreal.sedelectronica.es/board"

U_OPE == "https://puertoreal.es/oferta-publica-de-empleo/"

U_BOE == "https://www.boe.es/buscar/ult_dias.php?id=BOE-A&t=4"

U_JUNTA == "https://www.juntadeandalucia.es/organismos/funcionpublica/areas/oposiciones.html"

JobUrls == {U_UCA, U_INAP, U_TABLON, U_OPE, U_BOE, U_JUNTA}

\* hashlib.sha1(url.encode()).hexdigest(), tabulated on the configured URLs.
generate_guid(url) ==
    CASE url = U_UCA    -> "cced95a59b1f3044d3f200a36c0312b3cf6a2ddf"
      [] url = U_INAP   -> "e7c4f5a11af0244bbee598b93b2c74c2e3356845"
      [] url = U_TABLON -> "ad2247145f4f85341613aacc6b70e02dcde0e89b"
      [] url = U_OPE    -> "7e9a3d72638d85a09b09260a765d924d61007ffb"
      [] url = U_BOE    -> "fa1ffa577b126907b0607c07979d579d95d74fcd"
      [] url = U_JUNTA  -> "dab7d089c6aaa937b7ea6555e4171cfa30a208ec"

\* The hard-coded job table of generate_detailed_report.py, key by key.
get_job_info ==
    [g \in {"cced95a59b1f3044d3f200a36c0312b3cf6a2ddf",
            "ad2247145f4f85341613aacc6b70e02dcde0e89b",
            "7e9a3d72638d85a09b09260a765d924d61007ffb",
            "e7c4f5a11af0244bbee598b93b2c74c2e3356845",
            "fa1ffa577b126907b0607c07979d579d95d74fcd",
            "dab7d089c6aaa937b7ea6555e4171cfa30a208ec"} |->
        CASE g = "cced95a59b1f3044d3f200a36c0312b3cf6a2ddf" ->
                [name |-> "Oposiciones UCA - Informatica", url |-> U_UCA]
          [] g = "ad2247145f4f85341613aacc6b70e02dcde0e89b" ->
                [name |-> "Cursos INAP - Informatica", url |-> U_INAP]
          [] g = "7e9a3d72638d85a09b09260a765d924d61007ffb" ->
                [name |-> "Ayto Puerto Real - Tablon", url |-> U_TABLON]
          [] g = "e7c4f5a11af0244bbee598b93b2c74c2e3356845" ->
                [name |-> "Ayto Puerto Real - OPE", url |-> U_OPE]
          [] g = "fa1ffa577b126907b0607c07979d579d95d74fcd" ->
                [name |-> "BOE - Oposiciones Estado", url |-> U_BOE]
          [] g = "dab7d089c6aaa937b7ea6555e4171cfa30a208ec" ->
                [name |-> "Junta de Andalucia - OPE", url |-> U_JUNTA]]

\* The configured name of the job with the given URL (same table, by URL).
JobNameOfUrl(url) ==
    (CHOOSE j \in {get_job_info[g] : g \in DOMAIN get_job_info} : j.url = url).name

\* An identifier of the cache that no job hashes to.
OrphanId == "abc123"

\* Identifiers of the hash-keyed layouts (the hash of a configured URL, and
\* the orphan) and of the URL-keyed layouts.
GuidIds == {generate_guid(U_OPE), OrphanId}

KeyIds == {U_BOE, U_OPE}

\* Byte-wise string order (SQLite's BINARY collation) on the identifiers used.
IdOrder ==
    <<generate_guid(U_OPE), OrphanId, generate_guid(U_BOE), U_OPE, U_BOE>>

\* Rank of a nullable identifier in ORDER BY: NULL sorts before every value.
IdRank(id) ==
    IF id = None THEN 0
    ELSE CHOOSE i \in 1..Len(IdOrder) : IdOrder[i] = id[1]

\* Timestamps that rows carry.  Time is counted in ticks of 200 seconds since
\* the Unix epoch, so that every instant the scripts can meet is a TLC integer:
\* 8500000 is 1700000000 s (2023-11-14 22:13:20 UTC), 8500432 is one day later,
\* and 1500000000 is 3 * 10^11 s, in the year 11476, which datetime cannot hold.
TsValues == {8500000, 8500432, 1500000000}

\* datetime.fromtimestamp(ts) raises ValueError past 9999-12-31 23:59:59
\* (253402300799 s).
Representable(ts) == ts <= 1267011503

\* datetime.fromtimestamp(ts).strftime("%d/%m/%Y %H:%M:%S"), in UTC.
FormatDMY(ts) ==
    CASE ts = 8500000 -> "14/11/2023 22:13:20"
      [] ts = 8500432 -> "15/11/2023 22:13:20"

\* datetime.now() at the start of a run.
Clock == {8503000, 8503200}

\* Rank of a nullable timestamp in ORDER BY: NULL sorts before every value.
SqlRank(ts) == IF ts = None THEN -1 ELSE ts[1]

\* Python's `x['timestamp'] or 0`.
TsOrZero(ts) == IF ts = None \/ ts[1] = 0 THEN 0 ELSE ts[1]

(***************************************************************************)
(* The cache database.  schema maps each table present to its columns;    *)
(* rows are the rows of the cache table in rowid order.  A row's ident is  *)
(* the value of the layout's identifier column (guid, key or url).         *)
(***************************************************************************)
GuidLayout == "CacheEntry" :> {"guid", "timestamp", "data", "tries", "etag"}

GuidUrlLayout ==
    "CacheEntry" :> {"guid", "timestamp", "data", "tries", "etag", "url"}

KeyTsLayout == "CacheEntry" :> {"key", "timestamp", "data"}

KeyOnlyLayout == "CacheEntry" :> {"key", "data"}

OddCacheEntryLayout == "CacheEntry" :> {"id", "value"}

OddWithSnapshotsLayout ==
    ("CacheEntry" :> {"id", "value"}) @@ ("snapshots" :> {"url", "timestamp"})

SnapshotsLayout == "snapshots" :> {"url", "timestamp"}

JobStateLayout == "job_state" :> {"job", "last_changed"}

EmptyLayout == <<>>

Optional(S) == {None} \cup {Some(x) : x \in S}

\* Rows of the hash-keyed layout: guid, timestamp, tries, data (its length).
GuidRows ==
    [ident : Optional(GuidIds), timestamp : Optional(TsValues),
     tries : {0, 2}, data : Optional({120}), url : {None}]

\* The url column, where a layout has one, holds the URL the guid hashes.
UrlOfGuid(id) ==
    IF id # None /\ \E u \in JobUrls : generate_guid(u) = id[1]
    THEN Some(CHOOSE u \in JobUrls : generate_guid(u) = id[1])
    ELSE None

WithUrl(r) == [r EXCEPT !.url = UrlOfGuid(r.ident)]

\* Rows of the URL-keyed layouts: the columns the hash-keyed scripts read are
\* not there.
KeyTsRows ==
    [ident : Optional(KeyIds), timestamp : Optional(TsValues),
     tries : {0}, data : {None}, url : {None}]

KeyOnlyRows ==
    [ident : Optional(KeyIds), timestamp : {None},
     tries : {0}, data : {None}, url : {None}]

Database(e, v, s, r) == [exists |-> e, valid |-> v, schema |-> s, rows |-> r]

MissingDb == Database(FALSE, FALSE, EmptyLayout, <<>>)

CorruptDb == Database(TRUE, FALSE, EmptyLayout, <<>>)

\* No script reads the rowid of a table that has a timestamp column, and the
\* order of rows that tie is open in every query: tables that hold the same
\* rows in another insertion order give the same outcomes.  One insertion
\* order stands for them all: the one sorted by RowKey.
RowKey(r) ==
    ((IdRank(r.ident) * 4 + (IF r.timestamp = None THEN 0 ELSE
                              IF r.timestamp[1] = 8500000 THEN 1 ELSE
                              IF r.timestamp[1] = 8500432 THEN 2 ELSE 3)) * 2
       + (IF r.data = None THEN 0 ELSE 1)) * 4 + r.tries

Representative(r) ==
    \A i \in DOMAIN r : i < Len(r) => RowKey(r[i]) <= RowKey(r[i + 1])

\* The databases a behaviour may start from, layout by layout.
IsDatabase(d) ==
    \/ d \in {MissingDb, CorruptDb}
    \/ \E s \in {EmptyLayout, JobStateLayout, OddCacheEntryLayout} :
          d = Database(TRUE, TRUE, s, <<>>)
    \/ \E k \in 0..MaxRows : \E r \in [1..k -> GuidRows] :
          /\ Representative(r)
          /\ d = Database(TRUE, TRUE, GuidLayout, r)
    \/ \E k \in 0..MaxRows : \E r \in [1..k -> GuidRows] :
          /\ Representative(r)
          /\ d = Database(TRUE, TRUE, GuidUrlLayout, [i \in 1..k |-> WithUrl(r[i])])
    \/ \E s \in {KeyTsLayout, SnapshotsLayout, OddWithSnapshotsLayout} :
          \E k \in 0..MaxRows : \E r \in [1..k -> KeyTsRows] :
             d = Database(TRUE, TRUE, s, r)
    \/ \E k \in 0..MaxRows : \E r \in [1..k -> KeyOnlyRows] :
          d = Database(TRUE, TRUE, KeyOnlyLayout, r)

Tables(d) == DOMAIN d.schema

Columns(d, t) == d.schema[t]

RowIds(d) == 1..Len(d.rows)

Max(S) == CHOOSE x \in S : \A y \in S : y <= x

\* Every order of the elements of S that is sorted by LE (ties in any order).
SortedSeqs(S, LE(_, _)) ==
    {s \in [1..Cardinality(S) -> S] :
        /\ \A i, j \in DOMAIN s : i # j => s[i] # s[j]
        /\ \A i \in DOMAIN s : i < Cardinality(S) => LE(s[i], s[i + 1])}

\* A line of standard output: its text and the names it lists.
Line(text, names) == [text |-> text, names |-> names]

(***************************************************************************)
(* ultimos_cambios.py                                                      *)
(***************************************************************************)
\* sqlite3.connect(path) on a path where no file is creates an empty database;
\* every statement the scripts execute afterwards is a SELECT or a PRAGMA.
Connect(d) ==
    IF d.exists THEN d ELSE Database(TRUE, TRUE, EmptyLayout, <<>>)

\* A bug main could have: the existence check always passes.
check_database_exists_always(d) == TRUE

\* os.path.exists(DB_PATH)
check_database_exists(d) == d.exists

\* MAX(timestamp) of the rows of one group: NULL when every one is NULL.
GroupMaxTs(d, id) ==
    LET S == {d.rows[i].timestamp[1] :
                i \in {k \in RowIds(d) : d.rows[k].ident = id
                                         /\ d.rows[k].timestamp # None}}
    IN  IF S = {} THEN None ELSE Some(Max(S))

GroupMaxRowid(d, id) == Some(Max({i \in RowIds(d) : d.rows[i].ident = id}))

GroupCount(d, id) == Cardinality({i \in RowIds(d) : d.rows[i].ident = id})

\* SELECT ident, last(...), COUNT(*) ... GROUP BY ident ORDER BY last(...) DESC
\* over the groups ids; one result tuple per group.
GroupedQuery(d, ids, Last(_, _)) ==
    LET tuples == {[url |-> id, last |-> Last(d, id), count |-> GroupCount(d, id)] :
                     id \in ids}
        Desc(a, b) == SqlRank(a.last) >= SqlRank(b.last)
    IN  SortedSeqs(tuples, Desc)

Idents(d) == {d.rows[i].ident : i \in RowIds(d)}

\* The recent-activity query: rows of the last seven days (3024 ticks) with a
\* key, grouped by key and calendar day, newest first.  The timestamps of
\* TsValues fall on different days, so a group is a key and a timestamp.
RecentActivity(d, now) ==
    LET recent == {i \in RowIds(d) : /\ d.rows[i].timestamp # None
                                     /\ d.rows[i].timestamp[1] > now - 3024
                                     /\ d.rows[i].ident # None}
        groups == {[url |-> d.rows[i].ident, timestamp |-> d.rows[i].timestamp,
                    changes_count |->
                        Cardinality({j \in recent :
                            /\ d.rows[j].ident = d.rows[i].ident
                            /\ d.rows[j].timestamp = d.rows[i].timestamp})] :
                    i \in recent}
        Desc(a, b) == SqlRank(a.timestamp) >= SqlRank(b.timestamp)
    IN  SortedSeqs(groups, Desc)

\* What a run of get_database_info leaves: the value returned (None on
\* failure), the lines printed, the names learnt by introspection and the
\* names its data queries use.
InfoFailure(lines, observed) ==
    [data |-> None, stdout |-> lines, observed |-> observed, queried |-> {}]

InfoSuccess(lines, results, recent, type, observed, queried) ==
    [data |-> Some([last_changes |-> results, recent_activity |-> recent,
                    total_urls |-> Len(results), table_type |-> type]),
     stdout |-> lines, observed |-> observed, queried |-> queried]

\* A bug get_database_info could have: no table matches and it returns an
\* empty result instead of None.
NoRecognizedTable_empty_result(d, avail) ==
    {InfoSuccess(avail, <<>>, <<>>, "snapshots", Tables(d), {})}

\* The last branch of the dispatch: neither CacheEntry nor snapshots is there.
NoRecognizedTable(d, avail) ==
    {InfoFailure(avail \o
        <<Line("No recognized table structure found in tables", Tables(d))>>,
        Tables(d))}

\* 'key' in columns and 'timestamp' in columns
KeyAndTimestamp(cols) == "key" \in cols /\ "timestamp" \in cols

\* get_database_info: the connection opened at its start is closed by the
\* finally clause on every path.
get_database_info(d, now) ==
    IF ~d.valid
    THEN {InfoFailure(<<Line("ERROR: Database error", {})>>, {})}
    ELSE LET avail == <<Line("Available tables", Tables(d))>> IN
         IF "CacheEntry" \in Tables(d)
         THEN LET cols == Columns(d, "CacheEntry")
                  seen == avail \o <<Line("CacheEntry columns", cols)>>
                  obs == Tables(d) \cup cols
              IN  IF KeyAndTimestamp(cols)
                  THEN {InfoSuccess(seen, r, a, "CacheEntry", obs,
                                    {"CacheEntry", "key", "timestamp"}) :
                          r \in GroupedQuery(d, Idents(d) \ {None}, GroupMaxTs),
                          a \in RecentActivity(d, now)}
                  ELSE IF "key" \in cols
                  THEN {InfoSuccess(seen, r, <<>>, "CacheEntry", obs,
                                    {"CacheEntry", "key"}) :
                          r \in GroupedQuery(d, Idents(d) \ {None}, GroupMaxRowid)}
                  ELSE {InfoFailure(seen \o
                          <<Line("Unknown CacheEntry structure", {})>>, obs)}
         ELSE IF "snapshots" \in Tables(d)
         THEN IF {"url", "timestamp"} \subseteq Columns(d, "snapshots")
              THEN {InfoSuccess(avail, r, <<>>, "snapshots", Tables(d),
                                {"snapshots", "url", "timestamp"}) :
                      r \in GroupedQuery(d, Idents(d), GroupMaxTs)}
              ELSE {[data |-> None,
                     stdout |-> avail \o <<Line("ERROR: Database error", {})>>,
                     observed |-> Tables(d),
                     queried |-> {"snapshots", "url", "timestamp"}]}
         ELSE NoRecognizedTable(d, avail)

\* strftime('%Y-%m-%d %H:%M:%S') of datetime.fromtimestamp(ts), in UTC.
FormatYMD(ts) ==
    CASE ts = 8500000 -> "2023-11-14 22:13:20"
      [] ts = 8500432 -> "2023-11-15 22:13:20"

\* format_timestamp of ultimos_cambios.py.  Comparing None with a number
\* raises TypeError and an instant past year 9999 raises ValueError: both are
\* caught.  5000000 ticks are the 1000000000 seconds of the source.
format_timestamp(v) ==
    IF v = None THEN [kind |-> "Unknown", value |-> v, text |-> ""]
    ELSE IF v[1] > 5000000
    THEN IF Representable(v[1])
         THEN [kind |-> "date", value |-> v, text |-> FormatYMD(v[1])]
         ELSE [kind |-> "Unknown", value |-> v, text |-> ""]
    ELSE [kind |-> "Entry #", value |-> v, text |-> ""]

\* `timestamp and timestamp > 1000000000`
LooksLikeTimestamp(v) == v # None /\ v[1] # 0 /\ v[1] > 5000000

\* (datetime.now() - datetime.fromtimestamp(timestamp)).days, outside any try:
\* the ValueError of an instant past year 9999 leaves the report generators.
DaysAgoRaises(results) ==
    \E i \in DOMAIN results :
        LooksLikeTimestamp(results[i].last) /\ ~Representable(results[i].last[1])

DaysAgo(v, now) ==
    IF LooksLikeTimestamp(v) THEN Some((now - v[1]) \div 432) ELSE None

\* generate_json_report: the entries of "urls" and of "recent_activity".
generate_json_report(data, now) ==
    [status |-> "success",
     urls |-> [i \in DOMAIN data.last_changes |->
                 LET t == data.last_changes[i]
                 IN  [url |-> t.url, last |-> t.last, count |-> t.count,
                      formatted |-> format_timestamp(t.last),
                      days_ago |-> DaysAgo(t.last, now)]],
     recent_activity |->
        [i \in DOMAIN data.recent_activity |->
            LET t == data.recent_activity[i]
            IN  [url |-> t.url, timestamp |-> t.timestamp,
                 formatted |-> format_timestamp(t.timestamp),
                 changes_count |-> t.changes_count]]]

\* main of ultimos_cambios.py under the handler of __main__: exit code, the
\* JSON report written (None when the run writes none), standard output, what
\* get_database_info returned, and the connection's fate.
UltimosCambiosMain(d, now) ==
    IF ~check_database_exists(d)
    THEN {[script |-> "ultimos_cambios", exit |-> 0,
           json |-> Some([status |-> "database_not_found", urls |-> <<>>,
                          recent_activity |-> <<>>]),
           stdout |-> <<Line("INFO: urlwatch database not found", {})>>,
           data |-> None, observed |-> {}, queried |-> {},
           connected |-> FALSE, conn_open |-> FALSE]}
    ELSE {IF i.data = None
          THEN [script |-> "ultimos_cambios", exit |-> 1,
                json |-> None,
                stdout |-> i.stdout \o
                    <<Line("ERROR: Could not retrieve data from database", {})>>,
                data |-> None, observed |-> i.observed, queried |-> i.queried,
                connected |-> TRUE, conn_open |-> FALSE]
          ELSE IF DaysAgoRaises(i.data[1].last_changes)
          THEN [script |-> "ultimos_cambios", exit |-> 1,
                json |-> None,
                stdout |-> i.stdout \o <<Line("Unexpected error", {})>>,
                data |-> i.data, observed |-> i.observed, queried |-> i.queried,
                connected |-> TRUE, conn_open |-> FALSE]
          ELSE [script |-> "ultimos_cambios", exit |-> 0,
                json |-> Some(generate_json_report(i.data[1], now)),
                stdout |-> i.stdout,
                data |-> i.data, observed |-> i.observed, queried |-> i.queried,
                connected |-> TRUE, conn_open |-> FALSE]
          : i \in get_database_info(Connect(d), now)}

(***************************************************************************)
(* The CacheEntry query the hash-keyed scripts share: it raises unless the *)
(* file is a database whose CacheEntry table has every column it names.    *)
(***************************************************************************)
GuidQueryColumns == {"guid", "timestamp", "tries", "etag", "data"}

\* A bug the scripts could have: the error of the query is swallowed where it
\* is raised and the run goes on with no rows.
QueryRaises_swallowed(d, cols) == FALSE

QueryRaises(d, cols) ==
    \/ ~d.valid
    \/ "CacheEntry" \notin Tables(d)
    \/ ~(cols \subseteq Columns(d, "CacheEntry"))

\* ORDER BY guid, timestamp DESC
ByGuidThenTsDesc(d, i, j) ==
    \/ IdRank(d.rows[i].ident) < IdRank(d.rows[j].ident)
    \/ /\ d.rows[i].ident = d.rows[j].ident
       /\ SqlRank(d.rows[i].timestamp) >= SqlRank(d.rows[j].timestamp)

\* ORDER BY timestamp DESC
ByTsDesc(d, i, j) == SqlRank(d.rows[i].timestamp) >= SqlRank(d.rows[j].timestamp)

\* The rows fetched, as every order the ORDER BY allows.
FetchAll(d, LE(_, _, _)) ==
    LET Ordered(i, j) == LE(d, i, j)
    IN  {[k \in DOMAIN o |-> d.rows[o[k]]] : o \in SortedSeqs(RowIds(d), Ordered)}

\* The keys of a dict filled in the order of `results`: first occurrence first.
KeysInOrder(results) ==
    LET keys == {results[i].ident : i \in DOMAIN results}
        First(g) == CHOOSE i \in DOMAIN results :
                        /\ results[i].ident = g
                        /\ \A j \in 1..(i - 1) : results[j].ident # g
        Earlier(a, b) == First(a) <= First(b)
    IN  CHOOSE s \in SortedSeqs(keys, Earlier) : TRUE

\* The rows of one group, in the order fetched.
GroupOf(results, g) ==
    LET Mine(r) == r.ident = g IN SelectSeq(results, Mine)

(***************************************************************************)
(* generate_detailed_report.py                                             *)
(***************************************************************************)
\* A bug the lookup could have: the default path is returned unchecked.
get_urlwatch_db_path_unchecked(d) == TRUE

\* The path of the database, or None when no file is at any place searched.
get_urlwatch_db_path(d) == d.exists

\* guid[:8]
Truncate8(g) ==
    CASE g = "7e9a3d72638d85a09b09260a765d924d61007ffb" -> "7e9a3d72"
      [] g = "fa1ffa577b126907b0607c07979d579d95d74fcd" -> "fa1ffa57"
      [] g = "abc123" -> "abc123"
      [] OTHER -> "https://"

KnownName(name) == [label |-> name, arg |-> None]

\* jobs_info.get(guid, {"name": f"Job desconocido ({guid[:8]}...)", ...})
JobInfoFor(g) ==
    IF g \in DOMAIN get_job_info
    THEN [name |-> KnownName(get_job_info[g].name), url |-> get_job_info[g].url]
    ELSE [name |-> [label |-> "Job desconocido", arg |-> Some(Truncate8(g))],
          url |-> "URL desconocida"]

\* CASE WHEN data IS NULL THEN 'ERROR' ELSE 'OK' END
StatusOf(r) == IF r.data = None THEN "ERROR" ELSE "OK"

EntryOf(r) == [timestamp |-> r.timestamp, tries |-> r.tries, status |-> StatusOf(r)]

\* A bug the search could have: without its break it keeps the last OK entry.
LastOk(entries) ==
    IF \E i \in DOMAIN entries : entries[i].status = "OK"
    THEN Some(entries[CHOOSE i \in DOMAIN entries :
                        /\ entries[i].status = "OK"
                        /\ \A j \in (i + 1)..Len(entries) : entries[j].status # "OK"])
    ELSE None

\* The first entry with status OK, or None.
FirstOk(entries) ==
    IF \E i \in DOMAIN entries : entries[i].status = "OK"
    THEN Some(entries[CHOOSE i \in DOMAIN entries :
                        /\ entries[i].status = "OK"
                        /\ \A j \in 1..(i - 1) : entries[j].status # "OK"])
    ELSE None

\* format_timestamp of generate_detailed_report.py: a falsy timestamp is
\* "Sin datos", one that datetime rejects is "Fecha invalida".
gdr_format_timestamp(ts) ==
    IF ts = None \/ ts[1] = 0 THEN "Sin datos"
    ELSE IF Representable(ts[1]) THEN FormatDMY(ts[1])
    ELSE "Fecha invalida"

\* The report block printed for one guid.
DetailedBlock(results, g) ==
    LET rs == GroupOf(results, g)
        entries == [i \in DOMAIN rs |-> EntryOf(rs[i])]
        ok == FirstOk(entries)
    IN  [guid |-> g, name |-> JobInfoFor(g[1]).name, url |-> JobInfoFor(g[1]).url,
         latest |-> entries[1], last_successful |-> ok,
         ultima_verificacion |-> gdr_format_timestamp(entries[1].timestamp),
         ultimo_cambio_exitoso |->
            IF ok = None THEN "Sin datos disponibles"
            ELSE gdr_format_timestamp(ok[1].timestamp)]

\* The loop over guid_data: a NULL guid raises TypeError in guid[:8] (the
\* default of .get is evaluated for every guid) and ends the loop there.
DetailedLoop(results) ==
    LET keys == KeysInOrder(results)
        stop == IF \E i \in DOMAIN keys : keys[i] = None
                THEN CHOOSE i \in DOMAIN keys : keys[i] = None
                ELSE Len(keys) + 1
    IN  [blocks |-> [i \in 1..(stop - 1) |-> DetailedBlock(results, keys[i])],
         raised |-> stop <= Len(keys),
         groups |-> keys]

generate_detailed_report(d) ==
    IF ~get_urlwatch_db_path(d)
    THEN {[script |-> "generate_detailed_report", error |-> "not_found",
           stdout |-> <<Line("No se encontro la base de datos de URLWatch", {})>>,
           blocks |-> <<>>, groups |-> <<>>,
           observed |-> {}, queried |-> {},
           connected |-> FALSE, conn_open |-> FALSE]}
    ELSE IF QueryRaises(d, GuidQueryColumns)
    THEN {[script |-> "generate_detailed_report", error |-> "sqlite3.Error",
           stdout |-> <<Line("Error accediendo a la base de datos", {})>>,
           blocks |-> <<>>, groups |-> <<>>,
           observed |-> {}, queried |-> {"CacheEntry"} \cup GuidQueryColumns,
           connected |-> TRUE, conn_open |-> TRUE]}
    ELSE {LET l == DetailedLoop(results)
          IN  [script |-> "generate_detailed_report",
               error |-> IF l.raised THEN "Exception" ELSE "none",
               stdout |-> IF l.raised THEN <<Line("Error inesperado", {})>>
                          ELSE <<Line("Reporte guardado", {})>>,
               blocks |-> l.blocks, groups |-> l.groups,
               observed |-> {}, queried |-> {"CacheEntry"} \cup GuidQueryColumns,
               connected |-> TRUE, conn_open |-> l.raised]
          : results \in FetchAll(d, ByGuidThenTsDesc)}

(***************************************************************************)
(* track_changes.py                                                        *)
(***************************************************************************)
\* urls_config as loaded from .urlwatch/urls.yaml: url -> name.  The empty
\* mapping is what an unreadable or empty file leaves.
NoJobs == <<>>

ConfiguredJobs == [u \in JobUrls |-> JobNameOfUrl(u)]

\* .urlwatch/urls.yaml as the run finds it: not there (open raises) or there
\* with the configured jobs.
ConfigFiles == {"missing", "jobs"}

\* Lines 20-30: the error of an unreadable file is caught and printed, and
\* urls_config stays empty.
LoadUrlsConfig(file) ==
    [urls_config |-> IF file = "jobs" THEN ConfiguredJobs ELSE NoJobs,
     warned |-> file = "missing"]

\* sites_info[guid], filled from the first row fetched for the guid.
SiteInfo(results, g) ==
    LET rs == GroupOf(results, g)
    IN  [latest_timestamp |-> rs[1].timestamp,
         latest_tries |-> rs[1].tries,
         has_data |-> rs[1].data # None,
         data_length |-> IF rs[1].data = None THEN 0 ELSE rs[1].data[1],
         entries_count |-> Len(rs)]

\* SELECT url FROM CacheEntry WHERE guid = ? LIMIT 1 (guid = NULL matches no row)
UrlOfRow(d, g) ==
    IF g = None THEN None
    ELSE (d.rows[CHOOSE i \in RowIds(d) : d.rows[i].ident = g]).url

\* report_data['sites'][guid]
SiteReport(d, jobs, results, g) ==
    LET info == SiteInfo(results, g)
        u == UrlOfRow(d, g)
    IN  [guid |-> g,
         name |-> IF u # None
                  THEN IF u[1] \in DOMAIN jobs THEN KnownName(jobs[u[1]])
                       ELSE KnownName(u[1])
                  ELSE [label |-> "Sitio desconocido", arg |-> None],
         url |-> IF u # None THEN [prefix |-> "", value |-> u]
                 ELSE [prefix |-> "guid:", value |-> g],
         last_check |-> IF /\ info.latest_timestamp # None
                           /\ info.latest_timestamp[1] # 0
                           /\ Representable(info.latest_timestamp[1])
                        THEN FormatDMY(info.latest_timestamp[1])
                        ELSE "Sin datos",
         status |-> [ok |-> info.has_data,
                     intentos |-> IF info.latest_tries > 1
                                  THEN Some(info.latest_tries) ELSE None],
         data_size |-> 0,
         total_checks |-> info.entries_count]

\* SELECT DISTINCT guid FROM CacheEntry: no ORDER BY, any order.
DistinctGuids(d) ==
    LET Unordered(a, b) == TRUE IN SortedSeqs(Idents(d), Unordered)

\* The lines the loader and the analysis print.
TrackLines(cfg, last) ==
    (IF cfg.warned THEN <<Line("Error cargando configuracion de URLs", {})>>
     ELSE <<>>) \o <<Line(last, {})>>

analyze_cache_changes(d, file) ==
    IF ~d.exists
    THEN {[script |-> "track_changes", error |-> "no_cache", file |-> file,
           jobs |-> NoJobs,
           stdout |-> <<Line("No se encontro archivo de cache", {})>>,
           written |-> FALSE, sites |-> <<>>,
           observed |-> {}, queried |-> {},
           connected |-> FALSE, conn_open |-> FALSE]}
    ELSE LET cfg == LoadUrlsConfig(file)
             jobs == cfg.urls_config
         IN
         IF QueryRaises(d, GuidQueryColumns)
         THEN {[script |-> "track_changes", error |-> "Exception", file |-> file,
                jobs |-> jobs,
                stdout |-> TrackLines(cfg, "Error analizando cache"),
                written |-> FALSE, sites |-> <<>>,
                observed |-> {}, queried |-> {"CacheEntry"} \cup GuidQueryColumns,
                connected |-> TRUE, conn_open |-> TRUE]}
         ELSE IF Idents(d) # {} /\ "url" \notin Columns(d, "CacheEntry")
         THEN {[script |-> "track_changes", error |-> "Exception", file |-> file,
                jobs |-> jobs,
                stdout |-> TrackLines(cfg, "Error analizando cache"),
                written |-> FALSE, sites |-> <<>>,
                observed |-> {},
                queried |-> {"CacheEntry", "url"} \cup GuidQueryColumns,
                connected |-> TRUE, conn_open |-> TRUE]}
         ELSE {[script |-> "track_changes", error |-> "none", file |-> file,
                jobs |-> jobs,
                stdout |-> TrackLines(cfg, "Analisis de cambios completado"),
                written |-> TRUE,
                sites |-> [i \in DOMAIN guids |->
                             SiteReport(d, jobs, results, guids[i])],
                observed |-> {},
                queried |-> {"CacheEntry"} \cup GuidQueryColumns
                            \cup (IF Idents(d) # {} THEN {"url"} ELSE {}),
                connected |-> TRUE, conn_open |-> FALSE]
               : results \in FetchAll(d, ByTsDesc), guids \in DistinctGuids(d)}

(***************************************************************************)
(* generate_github_report.py                                               *)
(***************************************************************************)
\* entries.sort(key=lambda x: x['timestamp'] or 0, reverse=True): stable.
SortByTsOrZeroDesc(entries) ==
    LET Before(i, j) ==
            \/ TsOrZero(entries[i].timestamp) > TsOrZero(entries[j].timestamp)
            \/ /\ TsOrZero(entries[i].timestamp) = TsOrZero(entries[j].timestamp)
               /\ i <= j
        o == CHOOSE q \in SortedSeqs(DOMAIN entries, Before) : TRUE
    IN  [k \in DOMAIN entries |-> entries[o[k]]]

\* The first entry with has_data, or None.
FirstWithData(entries) ==
    IF \E i \in DOMAIN entries : entries[i].has_data
    THEN Some(entries[CHOOSE i \in DOMAIN entries :
                        /\ entries[i].has_data
                        /\ \A j \in 1..(i - 1) : ~entries[j].has_data])
    ELSE None

\* 'datetime': datetime.fromtimestamp(timestamp) if timestamp else None
DatetimeOf(ts) == IF ts # None /\ ts[1] # 0 THEN ts ELSE None

\* cache_info[guid]
CacheInfoOf(results, g) ==
    LET rs == GroupOf(results, g)
        entries == SortByTsOrZeroDesc(
                     [i \in DOMAIN rs |->
                        [timestamp |-> rs[i].timestamp, tries |-> rs[i].tries,
                         has_data |-> rs[i].data # None,
                         data_length |-> IF rs[i].data = None THEN 0
                                         ELSE rs[i].data[1],
                         datetime |-> DatetimeOf(rs[i].timestamp)]])
        latest == entries[1]
        last_successful == FirstWithData(entries)
    IN  [guid |-> g,
         latest_check |-> latest.datetime,
         latest_status |-> IF latest.has_data THEN "OK" ELSE "ERROR",
         latest_tries |-> latest.tries,
         last_successful_check |->
            IF last_successful # None THEN last_successful[1].datetime ELSE None,
         has_last_successful |-> last_successful # None,
         total_entries |-> Len(entries),
         data_size |-> latest.data_length]

\* datetime.fromtimestamp(timestamp) of the grouping loop, inside the try.
DatetimeRaises(d) ==
    \E i \in RowIds(d) :
        /\ d.rows[i].timestamp # None
        /\ d.rows[i].timestamp[1] # 0
        /\ ~Representable(d.rows[i].timestamp[1])

\* analyze_cache_database: cache_info is filled after the grouping loop, so an
\* exception raised by the query or by that loop leaves it empty.
analyze_cache_database(d) ==
    IF ~d.exists
    THEN {[script |-> "generate_github_report", error |-> "none",
           stdout |-> <<>>, cache_info |-> <<>>,
           observed |-> {}, queried |-> {},
           connected |-> FALSE, conn_open |-> FALSE]}
    ELSE IF QueryRaises(d, GuidQueryColumns) \/ DatetimeRaises(d)
    THEN {[script |-> "generate_github_report", error |-> "Exception",
           stdout |-> <<Line("Error analizando cache", {})>>,
           cache_info |-> <<>>,
           observed |-> {}, queried |-> {"CacheEntry"} \cup GuidQueryColumns,
           connected |-> TRUE, conn_open |-> TRUE]}
    ELSE {LET keys == KeysInOrder(results)
          IN  [script |-> "generate_github_report", error |-> "none",
               stdout |-> <<>>,
               cache_info |-> [i \in DOMAIN keys |-> CacheInfoOf(results, keys[i])],
               observed |-> {}, queried |-> {"CacheEntry"} \cup GuidQueryColumns,
               connected |-> TRUE, conn_open |-> FALSE]
          : results \in FetchAll(d, ByGuidThenTsDesc)}

\* sites_from_logs: the URLs the recent logs name, in the order first met.
LogSites == {<<U_BOE>>, <<U_OPE, U_BOE>>}

\* The loop that looks for the cache entry of a site: the first item of
\* cache_info when cache_info is not longer than sites_from_logs, else None.
matching_cache(cache_info, sites_from_logs) ==
    IF Len(cache_info) >= 1 /\ Len(cache_info) <= Len(sites_from_logs)
    THEN Some(cache_info[1])
    ELSE None

\* GitHubReportGenerator.generate_detailed_report: final_report, one entry per
\* site of the logs, with what analyze_cache_database left.
github_generate_detailed_report(d, sites_from_logs) ==
    {[script |-> o.script, error |-> o.error, stdout |-> o.stdout,
      cache_info |-> o.cache_info, observed |-> o.observed,
      queried |-> o.queried, connected |-> o.connected,
      conn_open |-> o.conn_open,
      final_report |->
         [i \in DOMAIN sites_from_logs |->
            [url |-> sites_from_logs[i],
             cache_info |-> matching_cache(o.cache_info, sites_from_logs)]]]
     : o \in analyze_cache_database(d)}

(***************************************************************************)
(* hooks.py: the change tracker loaded by urlwatch.  The tracker keeps the *)
(* history in memory, one entry per key, and saves it to                   *)
(* logs/changes_history.json after every record.  Time is in half seconds: *)
(* isoformat keeps the instant, strftime("%d/%m/%Y %H:%M:%S") its second.  *)
(***************************************************************************)
\* Lines 43-44 and 99-100: the number of records kept per key.
RetentionCap == 50

\* Largest number of clock ticks a behaviour of the hooks spends recording.
MaxCalls == 2

\* A text that is a fixed string, and a text that shows an instant.
Literal(s) == [text |-> s, at |-> None]

\* datetime.isoformat()
isoformat(t) == [text |-> "isoformat", at |-> Some(t)]

\* datetime.strftime("%d/%m/%Y %H:%M:%S")
strftime(t) == [text |-> "%d/%m/%Y %H:%M:%S", at |-> Some(t \div 2)]

\* The history without any key.
NoHistory == [k \in {} |-> None]

\* The jobs urlwatch hands to the hooks: the second has no name.
BoeJob == [name |-> Some("BOE - Oposiciones Estado"), url |-> Some(U_BOE)]

OpeJob == [name |-> None, url |-> Some(U_OPE)]

HookJobs == {BoeJob, OpeJob}

\* getattr(job, 'name', default) and getattr(job, 'url', default)
JobAttr(job, attr, default) ==
    IF job[attr] = None THEN default ELSE job[attr][1]

\* The filtered content handed to filter_result: nothing, or a text.
HookResults == {None, Some([text |-> "hello", len |-> 5])}

\* The exceptions handed to job_failed.
HookExceptions == {"timeout"}

\* Line 288: f'error: {str(exception)[:100]}'
ErrorType(exception) ==
    CASE exception = "timeout" -> "error: timeout"

\* Lines 87-92 and 31-36: the record of one change; the two readings of the
\* clock are t1 and t2.
ChangeRecord(t1, t2, change_type, content_length) ==
    [timestamp |-> isoformat(t1),
     type |-> change_type,
     content_length |-> content_length,
     readable_date |-> strftime(t2)]

\* A trim that keeps the oldest records.
KeepLast_oldest_first(changes) ==
    IF Len(changes) > RetentionCap THEN SubSeq(changes, 1, RetentionCap)
    ELSE changes

\* Lines 99-100 and 43-44: changes[-50:] when there are more than 50.
KeepLast(changes) ==
    IF Len(changes) > RetentionCap
    THEN SubSeq(changes, Len(changes) - RetentionCap + 1, Len(changes))
    ELSE changes

\* A record that sets last_change and last_change_readable only when the
\* entry has none.
RecordInEntry_first_change_only(entry, rec) ==
    IF "changes" \notin DOMAIN entry
    THEN [raised |-> TRUE, entry |-> entry]
    ELSE [raised |-> FALSE,
          entry |-> ("changes" :> KeepLast(Append(entry.changes, rec))
                     @@ entry
                     @@ "last_change" :> rec.timestamp
                     @@ "last_change_readable" :> rec.readable_date)]

\* Lines 94-100 and 38-44 on the entry of the key: a KeyError when the entry
\* has no 'changes', before anything is modified.
RecordInEntry(entry, rec) ==
    IF "changes" \notin DOMAIN entry
    THEN [raised |-> TRUE, entry |-> entry]
    ELSE [raised |-> FALSE,
          entry |-> ("changes" :> KeepLast(Append(entry.changes, rec))
                     @@ "last_change" :> rec.timestamp
                     @@ "last_change_readable" :> rec.readable_date
                     @@ entry)]

\* The history with the entry of key k set to e.
WithEntry(h, k, e) ==
    [x \in DOMAIN h \cup {k} |-> IF x = k THEN e ELSE h[x]]

\* A record that sets name and first_seen anew at every call.
ChangeTracker_record_change_renaming(h, job_name, url, rec) ==
    LET entry == IF url \in DOMAIN h
                 THEN "name" :> job_name @@ "first_seen" :> rec.timestamp @@ h[url]
                 ELSE [name |-> job_name, first_seen |-> rec.timestamp,
                       changes |-> <<>>]
        o == RecordInEntry(entry, rec)
    IN  [raised |-> o.raised, key |-> url, history |-> WithEntry(h, url, o.entry)]

\* ChangeTracker.record_change, lines 76-102, up to the save.
ChangeTracker_record_change(h, job_name, url, rec) ==
    LET entry == IF url \in DOMAIN h THEN h[url]
                 ELSE [name |-> job_name, first_seen |-> rec.timestamp,
                       changes |-> <<>>]
        o == RecordInEntry(entry, rec)
    IN  [raised |-> o.raised, key |-> url, history |-> WithEntry(h, url, o.entry)]

\* The function record_change of the module, lines 18-46, up to the save:
\* the key is the hash of the URL and the entry keeps the URL.
record_change(h, job_name, url, rec) ==
    LET guid == generate_guid(url)
        entry == IF guid \in DOMAIN h THEN h[guid]
                 ELSE [name |-> job_name, url |-> url,
                       first_seen |-> rec.timestamp, changes |-> <<>>]
        o == RecordInEntry(entry, rec)
    IN  [raised |-> o.raised, key |-> guid, history |-> WithEntry(h, guid, o.entry)]

\* logs/changes_history.json: absent, unreadable as JSON, or a history; and
\* whether the files of the directory logs can be written.
HistoryFile(present, valid, data, writable) ==
    [present |-> present, valid |-> valid, data |-> data, writable |-> writable]

\* load_history, lines 57-66: any failure gives the empty history.
load_history(f) ==
    IF f.present /\ f.valid THEN f.data ELSE NoHistory

\* save_history, lines 68-74: a failure is printed and the file is left as it was.
save_history(f, h) ==
    IF f.writable THEN HistoryFile(TRUE, TRUE, h, TRUE) ELSE f

\* The outcome of a hook before any hook ran.
NoHook == [hook |-> "none"]

\* filter_result, lines 108-129: records 'processed' with the length of the
\* result and returns the result; an exception of the recording is printed.
filter_result(h, f, url, job, result, t1, t2) ==
    LET job_name == JobAttr(job, "name", "Unnamed Job")
        content_length == IF result = None THEN 0 ELSE result[1].len
        rec == ChangeRecord(t1, t2, "processed", content_length)
        o == ChangeTracker_record_change(h, job_name, url, rec)
    IN  [history |-> o.history,
         file |-> IF o.raised THEN f ELSE save_history(f, o.history),
         rec |-> rec,
         out |-> [hook |-> "filter_result", key |-> o.key, recorded |-> ~o.raised,
                  given |-> result, returned |-> result, raised |-> FALSE,
                  printed |-> IF o.raised
                              THEN Some("Error en filter_result hook") ELSE None]]

\* job_failed, lines 276-298: records the error, then appends a line to
\* logs/errors.log; an exception of either is printed.
job_failed(h, f, job, exception, t1, t2) ==
    LET job_name == JobAttr(job, "name", "Unnamed Job")
        job_url == JobAttr(job, "url", "Unknown URL")
        rec == ChangeRecord(t1, t2, ErrorType(exception), 0)
        o == ChangeTracker_record_change(h, job_name, job_url, rec)
    IN  [history |-> o.history,
         file |-> IF o.raised THEN f ELSE save_history(f, o.history),
         rec |-> rec,
         out |-> [hook |-> "job_failed", key |-> o.key, recorded |-> ~o.raised,
                  logged |-> ~o.raised /\ f.writable, raised |-> FALSE,
                  printed |-> IF o.raised \/ ~f.writable
                              THEN Some("Error en job_failed hook") ELSE None]]

\* job_list_finished, lines 131-160: writes the summary of the jobs.
job_list_finished(f, jobs) ==
    [hook |-> "job_list_finished",
     summary |-> IF f.writable
                 THEN Some([total_jobs |-> Len(jobs),
                            jobs_summary |->
                               [i \in DOMAIN jobs |->
                                  [name |-> JobAttr(jobs[i], "name", "Unnamed"),
                                   url |-> JobAttr(jobs[i], "url", "Unknown URL"),
                                   timeout |-> 30, filters |-> "[]"]]])
                 ELSE None,
     raised |-> FALSE,
     printed |-> IF f.writable THEN None
                 ELSE Some("Error en job_list_finished hook")]

\* The position of the first record of type 'unchanged', 0 if none.
FirstUnchangedIndex(changes) ==
    LET S == {i \in DOMAIN changes : changes[i].type = "unchanged"}
    IN  IF S = {} THEN 0 ELSE CHOOSE i \in S : \A j \in S : i <= j

\* Lines 183-186: the position of the last record of type 'unchanged', 0 if none.
LastUnchangedIndex(changes) ==
    LET S == {i \in DOMAIN changes : changes[i].type = "unchanged"}
    IN  IF S = {} THEN 0 ELSE Max(S)

\* Lines 190-193: the position of the last record of type 'processed' or
\* 'new' with content, 0 if none.
LastProcessedIndex(changes) ==
    LET S == {i \in DOMAIN changes :
                /\ changes[i].type \in {"processed", "new"}
                /\ changes[i].content_length > 0}
    IN  IF S = {} THEN 0 ELSE Max(S)

\* Lines 182-193.
last_unchanged(changes) ==
    LET u == LastUnchangedIndex(changes)
        first == IF u = 0 THEN Literal("No disponible")
                 ELSE changes[u].readable_date
        p == LastProcessedIndex(changes)
    IN  IF first = Literal("No disponible") /\ p # 0
        THEN changes[p].readable_date
        ELSE first

\* Lines 176-202: current_status['monitored_sites'][url].
MonitoredSite(data) ==
    LET changes == IF "changes" \in DOMAIN data THEN data.changes ELSE <<>>
    IN  [name |-> data.name,
         first_seen |-> IF "first_seen" \in DOMAIN data
                        THEN Some(data.first_seen) ELSE None,
         last_change |-> IF "last_change_readable" \in DOMAIN data
                         THEN data.last_change_readable
                         ELSE Literal("Sin cambios registrados"),
         last_unchanged |-> last_unchanged(changes),
         total_changes |-> Len(changes),
         recent_activity |->
            IF Len(changes) > 3
            THEN SubSeq(changes, Len(changes) - 2, Len(changes)) ELSE changes]

\* print of a text with the characters of lines 263 and 266, which a
\* standard output of another encoding than UTF-8 cannot encode.
PrintRaises(unicode_stdout) == ~unicode_stdout

\* report_finished, lines 162-266: writes the status of every key, prints
\* that the report was generated; the handler of line 265 prints the error.
report_finished(h, f, unicode_stdout) ==
    LET body_raises ==
            \/ \E k \in DOMAIN h : "name" \notin DOMAIN h[k]
            \/ ~f.writable
            \/ PrintRaises(unicode_stdout)
        written == /\ \A k \in DOMAIN h : "name" \in DOMAIN h[k]
                   /\ f.writable
    IN  [hook |-> "report_finished",
         current_status |->
            IF written THEN Some([k \in DOMAIN h |-> MonitoredSite(h[k])])
            ELSE None,
         printed |-> IF ~body_raises THEN Some("Reporte generado")
                     ELSE IF ~PrintRaises(unicode_stdout)
                          THEN Some("Error en report_finished hook")
                          ELSE None,
         raised |-> body_raises /\ PrintRaises(unicode_stdout)]

\* The changes of a saved entry: the i-th was recorded at instant i.
Recorded(kinds) ==
    [i \in DOMAIN kinds |-> ChangeRecord(i, i, kinds[i][1], kinds[i][2])]

\* An entry as record_change leaves it.
SavedEntry(name, changes) ==
    [name |-> name, first_seen |-> isoformat(1), changes |-> changes,
     last_change |-> changes[Len(changes)].timestamp,
     last_change_readable |-> changes[Len(changes)].readable_date]

\* Saved changes of every kind the report distinguishes.
LoadedChanges ==
    {Recorded(<<<<"unchanged", 0>>>>),
     Recorded(<<<<"unchanged", 0>>, <<"processed", 5>>>>),
     Recorded(<<<<"unchanged", 0>>, <<"new", 5>>, <<"unchanged", 0>>>>),
     Recorded(<<<<"processed", 5>>, <<"new", 5>>>>),
     Recorded(<<<<"new", 5>>, <<"processed", 0>>>>),
     Recorded(<<<<"processed", 0>>>>),
     Recorded(<<<<"error: timeout", 0>>, <<"changed", 5>>>>),
     Recorded([i \in 1..(RetentionCap - 1) |-> <<"processed", 5>>]),
     Recorded([i \in 1..RetentionCap |-> <<"processed", 5>>])}

\* An entry without 'changes', as another writer of the file may leave it.
EntryWithoutChanges == [name |-> "Unnamed Job", first_seen |-> isoformat(1)]

\* The files the tracker may find when urlwatch imports the hooks.
HistoryFiles ==
    {HistoryFile(FALSE, FALSE, NoHistory, w) : w \in BOOLEAN}
    \cup {HistoryFile(TRUE, FALSE, NoHistory, TRUE)}
    \cup {HistoryFile(TRUE, TRUE, U_BOE :> SavedEntry(BoeJob.name[1], c), TRUE)
          : c \in LoadedChanges}
    \cup {HistoryFile(TRUE, TRUE, U_OPE :> EntryWithoutChanges, TRUE)}

\* The keys of a history that have a list of changes.
KeysWithChanges(h) == {k \in DOMAIN h : "changes" \in DOMAIN h[k]}

\* The first instant of an execution: later than every saved record.
FirstInstant == RetentionCap + 1

(***************************************************************************)
(* extract_jobs.py.  A YAML text is a sequence of lines; a line is at      *)
(* column 0 or indented, and starts a key of a mapping or not.  yaml.dump  *)
(* writes a mapping block style with its keys sorted, a text of several    *)
(* lines as a quoted scalar whose further lines are indented, an empty     *)
(* mapping as {} and null as the plain scalar followed by the end marker.  *)
(***************************************************************************)
\* Largest number of jobs of urls2watch.yaml.
MaxJobs == 2

YLine(indent, key, text) == [indent |-> indent, key |-> key, text |-> text]

\* The line extract_jobs writes between two jobs (line 22).
Separator == YLine(0, None, "---")

\* A job of the list: null, or a mapping given by its key-value pairs; a
\* value is its lines.
NullJob == [kind |-> "null", items |-> {}]

Mapping(items) == [kind |-> "mapping", items |-> items]

YamlJobs ==
    {Mapping({<<"name", <<"BOE - Oposiciones Estado">>>>, <<"url", <<U_BOE>>>>}),
     Mapping({<<"name", <<"a", "---", "b">>>>}),
     Mapping({}),
     NullJob}

\* The order of the keys of a mapping in the dump (sort_keys).
KeysSorted(items) ==
    LET ByKey(a, b) == (a[1] = "name") \/ (b[1] = "url")
    IN  CHOOSE q \in SortedSeqs(items, ByKey) : TRUE

\* The lines of one key and its value.
DumpItem(item) ==
    <<YLine(0, Some(item[1]), item[2][1])>>
    \o [i \in 1..(Len(item[2]) - 1) |-> YLine(2, None, item[2][i + 1])]

RECURSIVE DumpItems(_)
DumpItems(items) ==
    IF items = <<>> THEN <<>>
    ELSE DumpItem(Head(items)) \o DumpItems(Tail(items))

\* yaml.dump(job, f, default_flow_style=False, allow_unicode=True), line 20.
yaml_dump(job) ==
    IF job.kind = "null" THEN <<YLine(0, None, "null"), YLine(0, None, "...")>>
    ELSE IF job.items = {} THEN <<YLine(0, None, "{}")>>
    ELSE DumpItems(KeysSorted(job.items))

\* Every job with the separator after it.
RECURSIVE WriteJobs_separator_after_each(_)
WriteJobs_separator_after_each(jobs) ==
    IF jobs = <<>> THEN <<>>
    ELSE yaml_dump(Head(jobs)) \o <<Separator>>
         \o WriteJobs_separator_after_each(Tail(jobs))

\* Lines 18-22: every job, and the separator after each but the last.
RECURSIVE WriteJobs(_)
WriteJobs(jobs) ==
    IF jobs = <<>> THEN <<>>
    ELSE yaml_dump(Head(jobs))
         \o (IF Len(jobs) > 1 THEN <<Separator>> ELSE <<>>)
         \o WriteJobs(Tail(jobs))

\* The documents of a stream: the lines up to the first separator, and the
\* documents of the lines after it.
RECURSIVE SplitDocuments(_)
SplitDocuments(lines) ==
    LET seps == {i \in DOMAIN lines : lines[i] = Separator}
    IN  IF seps = {} THEN <<lines>>
        ELSE LET i == CHOOSE k \in seps : \A j \in seps : k <= j
             IN  <<SubSeq(lines, 1, i - 1)>>
                 \o SplitDocuments(SubSeq(lines, i + 1, Len(lines)))

\* The pairs of a block mapping: a key line and the indented lines after it.
RECURSIVE ParseItems(_)
ParseItems(lines) ==
    IF lines = <<>> THEN {}
    ELSE LET rest == Tail(lines)
             more == {i \in DOMAIN rest : rest[i].key # None}
             n == IF more = {} THEN Len(rest)
                  ELSE (CHOOSE k \in more : \A j \in more : k <= j) - 1
         IN  {<<Head(lines).key[1],
                <<Head(lines).text>> \o [i \in 1..n |-> rest[i].text]>>}
             \cup ParseItems(SubSeq(rest, n + 1, Len(rest)))

\* One document of a stream: without any line it is null.
ParseDocument(lines) ==
    IF lines = <<>> THEN NullJob
    ELSE IF lines[1].key = None /\ lines[1].text = "null" THEN NullJob
    ELSE IF lines[1].key = None /\ lines[1].text = "{}" THEN Mapping({})
    ELSE Mapping(ParseItems(lines))

\* list(yaml.safe_load_all(f)), src/track_changes.py line 25: a stream
\* without any line has no document.
yaml_safe_load_all(lines) ==
    IF lines = <<>> THEN <<>>
    ELSE LET docs == SplitDocuments(lines)
         IN  [i \in DOMAIN docs |-> ParseDocument(docs[i])]

\* urls2watch.yaml: missing, empty, a sequence, or a mapping, which has the
\* key 'jobs' (with a list or null) or not.
ConfigKinds == {"missing", "empty", "sequence", "no_jobs", "null_jobs", "jobs"}

JobLists == UNION {[1..n -> YamlJobs] : n \in 0..MaxJobs}

\* The files the two scripts read and write: urls2watch.yaml, the directory
\* .urlwatch and its urls.yaml (absent or its lines), logs/urlwatch_*.txt.
FileSystem(kind, jobs, urls_dir, urls, logs) ==
    [config |-> [kind |-> kind, jobs |-> jobs],
     urls_dir |-> urls_dir, urls |-> urls, logs |-> logs]

NoFiles == FileSystem("missing", <<>>, FALSE, None, <<>>)

\* extract_jobs, lines 8-29, with the exit status of the process: 1 when
\* sys.exit(1) is reached or the print of the handler raises in its turn.
extract_jobs(fs, unicode_stdout) ==
    LET cfg == fs.config
        load_raises == cfg.kind \in {"missing", "empty", "sequence"}
        jobs == IF cfg.kind = "jobs" THEN cfg.jobs ELSE <<>>
        opens == ~load_raises /\ jobs # <<>>
        open_raises == opens /\ ~fs.urls_dir
        print_raises == ~load_raises /\ ~open_raises /\ PrintRaises(unicode_stdout)
        raises == load_raises \/ open_raises \/ print_raises
    IN  [script |-> "extract_jobs",
         exit |-> IF raises THEN 1 ELSE 0,
         raised |-> raises,
         opened |-> opens /\ ~open_raises,
         stdout |-> IF PrintRaises(unicode_stdout) THEN <<>>
                    ELSE IF raises THEN <<Line("Error extrayendo jobs", {})>>
                    ELSE IF jobs # <<>> THEN <<Line("Extraidos jobs", {})>>
                    ELSE <<Line("No se encontraron jobs", {})>>,
         urls |-> IF opens /\ ~open_raises THEN Some(WriteJobs(jobs))
                  ELSE fs.urls]

(***************************************************************************)
(* generate_github_report.py, analyze_recent_logs.  The directory logs is  *)
(* the sequence of its files urlwatch_*.txt in ascending order of name;    *)
(* the name of the i-th file carries the instant i.                        *)
(***************************************************************************)
\* Largest number of log files of the directory.
MaxLogs == 6

\* Line 36: the number of log files analysed, the newest.
AnalysedLogs == 5

OpeName == "Ayto Puerto Real - OPE"

BoeName == "BOE - Oposiciones Estado"

\* A log file: whether reading it (or its date) raises, the Processing lines
\* in order, and the job names that an ERROR line carries.
LogFile(raises, processing, errors) ==
    [raises |-> raises, processing |-> processing, errors |-> errors]

LogContents ==
    {LogFile(FALSE, <<<<U_OPE, OpeName>>>>, {}),
     LogFile(FALSE, <<<<U_OPE, OpeName>>>>, {OpeName}),
     LogFile(FALSE, <<<<U_OPE, OpeName>>, <<U_BOE, BoeName>>>>, {BoeName}),
     LogFile(TRUE, <<>>, {})}

LogDirectories == UNION {[1..n -> LogContents] : n \in 0..MaxLogs}

\* A Processing line whose error is listed but not counted.
ProcessLine_uncounted_error(sites_status, url, name, has_error, file_timestamp) ==
    LET old == IF url \in DOMAIN sites_status THEN sites_status[url]
               ELSE [name |-> name, last_successful_check |-> None,
                     last_error |-> None, total_checks |-> 0,
                     error_count |-> 0, recent_status |-> <<>>]
        new == [old EXCEPT
                  !.total_checks = @ + 1,
                  !.last_error = IF has_error THEN Some(file_timestamp) ELSE @,
                  !.last_successful_check =
                     IF has_error THEN @ ELSE Some(file_timestamp),
                  !.recent_status =
                     Append(@, [timestamp |-> file_timestamp,
                                status |-> IF has_error THEN "ERROR" ELSE "OK"])]
    IN  WithEntry(sites_status, url, new)

\* Lines 56-80: one Processing line of the file of instant file_timestamp.
ProcessLine(sites_status, url, name, has_error, file_timestamp) ==
    LET old == IF url \in DOMAIN sites_status THEN sites_status[url]
               ELSE [name |-> name, last_successful_check |-> None,
                     last_error |-> None, total_checks |-> 0,
                     error_count |-> 0, recent_status |-> <<>>]
        new == IF has_error
               THEN [old EXCEPT
                       !.total_checks = @ + 1,
                       !.error_count = @ + 1,
                       !.last_error = Some(file_timestamp),
                       !.recent_status =
                          Append(@, [timestamp |-> file_timestamp,
                                     status |-> "ERROR"])]
               ELSE [old EXCEPT
                       !.total_checks = @ + 1,
                       !.last_successful_check = Some(file_timestamp),
                       !.recent_status =
                          Append(@, [timestamp |-> file_timestamp,
                                     status |-> "OK"])]
    IN  WithEntry(sites_status, url, new)

\* Lines 51-80: the Processing lines of one file from the k-th on.
RECURSIVE ProcessFile(_, _, _, _)
ProcessFile(sites_status, file, file_timestamp, k) ==
    IF k > Len(file.processing) THEN sites_status
    ELSE ProcessFile(ProcessLine(sites_status, file.processing[k][1],
                                 file.processing[k][2],
                                 file.processing[k][2] \in file.errors,
                                 file_timestamp),
                     file, file_timestamp, k + 1)

\* Lines 32-85: the files from the i-th down, while fewer than five were
\* taken; a file that raises is reported on the output and skipped.
RECURSIVE AnalyzeFrom(_, _, _, _)
AnalyzeFrom(sites_status, logs, i, taken) ==
    IF i = 0 \/ taken = AnalysedLogs THEN sites_status
    ELSE AnalyzeFrom(IF logs[i].raises THEN sites_status
                     ELSE ProcessFile(sites_status, logs[i], i, 1),
                     logs, i - 1, taken + 1)

analyze_recent_logs(logs) ==
    [script |-> "analyze_recent_logs",
     sites_status |-> AnalyzeFrom(NoHistory, logs, Len(logs), 0),
     stdout |-> {i \in DOMAIN logs : i > Len(logs) - AnalysedLogs /\ logs[i].raises}]

(***************************************************************************)
(* The reporting scripts: one execution of one script on one database.     *)
(***************************************************************************)
NotRun == [script |-> "none"]

\* The database file after a run.
After(d, o) == IF o.connected THEN Connect(d) ELSE d

\* No hook is loaded.
HooksIdle ==
    /\ history = NoHistory
    /\ changes_file = HistoryFile(FALSE, FALSE, NoHistory, TRUE)
    /\ appended = NoHistory
    /\ clock = FirstInstant
    /\ hook = NoHook

\* What a reporting script leaves alone.
others == <<files, history, changes_file, appended, clock, hook>>

Init ==
    /\ IsDatabase(db)
    /\ run = NotRun
    /\ files = NoFiles
    /\ HooksIdle

RunUltimosCambios ==
    /\ run = NotRun
    /\ \E now \in Clock : \E o \in UltimosCambiosMain(db, now) :
          run' = o /\ db' = After(db, o) /\ UNCHANGED others

RunDetailedReport ==
    /\ run = NotRun
    /\ \E o \in generate_detailed_report(db) :
          run' = o /\ db' = After(db, o) /\ UNCHANGED others

RunTrackChanges ==
    /\ run = NotRun
    /\ \E file \in ConfigFiles : \E o \in analyze_cache_changes(db, file) :
          run' = o /\ db' = After(db, o) /\ UNCHANGED others

RunGithubReport ==
    /\ run = NotRun
    /\ \E sites \in LogSites :
          \E o \in github_generate_detailed_report(db, sites) :
          run' = o /\ db' = After(db, o) /\ UNCHANGED others

Next ==
    \/ RunUltimosCambios
    \/ RunDetailedReport
    \/ RunTrackChanges
    \/ RunGithubReport

Spec == Init /\ [][Next]_vars

(***************************************************************************)
(* The hooks: the state is the tracker's history, the history file, the    *)
(* clock, the outcome of the last hook, and the records appended to every  *)
(* key since the file was loaded, those of the file first.                 *)
(***************************************************************************)
HooksInit ==
    /\ db = MissingDb
    /\ run = NotRun
    /\ files = NoFiles
    /\ changes_file \in HistoryFiles
    /\ history = load_history(changes_file)
    /\ appended = [k \in KeysWithChanges(history) |-> history[k].changes]
    /\ clock = FirstInstant
    /\ hook = NoHook

\* The records appended to key k so far, with rec as the newest.
Appending(k, rec) ==
    WithEntry(appended, k,
              Append(IF k \in DOMAIN appended THEN appended[k] ELSE <<>>, rec))

\* A hook that records: o is what it leaves; the second reading of the clock
\* was at t2.
Records(o, t2) ==
    /\ history' = o.history
    /\ changes_file' = o.file
    /\ hook' = o.out
    /\ appended' = IF o.out.recorded THEN Appending(o.out.key, o.rec) ELSE appended
    /\ clock' = t2 + 1
    /\ UNCHANGED <<db, run, files>>

FilterResult ==
    /\ clock < FirstInstant + MaxCalls
    /\ \E job \in HookJobs, result \in HookResults, t2 \in {clock, clock + 1} :
          Records(filter_result(history, changes_file, job.url[1], job, result,
                                clock, t2), t2)

JobFailed ==
    /\ clock < FirstInstant + MaxCalls
    /\ \E job \in HookJobs, exception \in HookExceptions,
          t2 \in {clock, clock + 1} :
          Records(job_failed(history, changes_file, job, exception, clock, t2), t2)

\* A call of the module's record_change on the tracker.
RecordChange ==
    /\ clock < FirstInstant + MaxCalls
    /\ LET rec == ChangeRecord(clock, clock, "changed", 5)
           o == record_change(history, BoeJob.name[1], U_BOE, rec)
       IN  Records([history |-> o.history,
                    file |-> IF o.raised THEN changes_file
                             ELSE save_history(changes_file, o.history),
                    rec |-> rec,
                    out |-> [hook |-> "record_change", key |-> o.key,
                             recorded |-> ~o.raised, raised |-> o.raised]],
                   clock)

JobListFinished ==
    /\ hook' = job_list_finished(changes_file, <<BoeJob, OpeJob>>)
    /\ UNCHANGED <<db, run, files, history, changes_file, appended, clock>>

ReportFinished ==
    /\ \E unicode_stdout \in BOOLEAN :
          hook' = report_finished(history, changes_file, unicode_stdout)
    /\ UNCHANGED <<db, run, files, history, changes_file, appended, clock>>

\* urlwatch starts again and imports the hooks: ChangeTracker(), lines 51-55.
ImportHooks ==
    /\ history' = load_history(changes_file)
    /\ appended' = [k \in KeysWithChanges(history') |-> history'[k].changes]
    /\ hook' = NoHook
    /\ UNCHANGED <<db, run, files, changes_file, clock>>

HooksNext ==
    \/ FilterResult
    \/ JobFailed
    \/ RecordChange
    \/ JobListFinished
    \/ ReportFinished
    \/ ImportHooks

HooksSpec == HooksInit /\ [][HooksNext]_vars

(***************************************************************************)
(* The scripts that work on files: one execution of extract_jobs or of     *)
(* analyze_recent_logs on one state of the files.                          *)
(***************************************************************************)
FilesInit ==
    /\ db = MissingDb
    /\ run = NotRun
    /\ HooksIdle
    /\ \/ \E kind \in ConfigKinds, urls_dir \in BOOLEAN,
             urls \in {None, Some(<<YLine(0, Some("name"), "old")>>)} :
             \E jobs \in IF kind = "jobs" THEN JobLists ELSE {<<>>} :
                files = FileSystem(kind, jobs, urls_dir, urls, <<>>)
       \/ \E logs \in LogDirectories :
             files = FileSystem("missing", <<>>, FALSE, None, logs)

RunExtractJobs ==
    /\ run = NotRun
    /\ \E unicode_stdout \in BOOLEAN :
          LET o == extract_jobs(files, unicode_stdout)
          IN  /\ run' = o
              /\ files' = [files EXCEPT !.urls = o.urls]
    /\ UNCHANGED <<db, history, changes_file, appended, clock, hook>>

RunAnalyzeLogs ==
    /\ run = NotRun
    /\ run' = analyze_recent_logs(files.logs)
    /\ UNCHANGED <<db, files, history, changes_file, appended, clock, hook>>

FilesNext ==
    \/ RunExtractJobs
    \/ RunAnalyzeLogs

FilesSpec == FilesInit /\ [][FilesNext]_vars

(***************************************************************************)
(* Properties.                                                             *)
(***************************************************************************)
\* The schema variant each script is written for.
IsKeyVariant(d) ==
    d.valid /\ "CacheEntry" \in Tables(d) /\ "key" \in Columns(d, "CacheEntry")

IsLegacyVariant(d) ==
    /\ d.valid
    /\ "CacheEntry" \notin Tables(d)
    /\ "snapshots" \in Tables(d)
    /\ {"url", "timestamp"} \subseteq Columns(d, "snapshots")

IsGuidVariant(d) ==
    /\ d.valid
    /\ "CacheEntry" \in Tables(d)
    /\ GuidQueryColumns \subseteq Columns(d, "CacheEntry")

\* The identifiers of the entries of the result, in the order of the result.
ResultIds ==
    CASE run.script = "ultimos_cambios" ->
            IF run.data = None THEN <<>>
            ELSE [i \in DOMAIN run.data[1].last_changes |->
                    run.data[1].last_changes[i].url]
      [] run.script = "generate_detailed_report" -> run.groups
      [] run.script = "track_changes" ->
            [i \in DOMAIN run.sites |-> run.sites[i].guid]
      [] run.script = "generate_github_report" ->
            [i \in DOMAIN run.cache_info |-> run.cache_info[i].guid]
      [] OTHER -> <<>>

NoDuplicates(s) == \A i, j \in DOMAIN s : i # j => s[i] # s[j]

Range(s) == {s[i] : i \in DOMAIN s}

\* C1: on a database of the variant a script is written for, the result holds
\* exactly one entry per distinct identifier of the cache table: none that has
\* a row is missing, none appears twice.
C1_OneEntryPerIdentifier ==
    (\/ run.script = "ultimos_cambios" /\ (IsKeyVariant(db) \/ IsLegacyVariant(db))
     \/ run.script \in {"generate_detailed_report", "track_changes",
                        "generate_github_report"} /\ IsGuidVariant(db))
    => /\ NoDuplicates(ResultIds)
       /\ Range(ResultIds) \ {None} = Idents(db) \ {None}

\* What a run that found no file leaves.
MissingOutcome ==
    /\ ~run.connected
    /\ ~run.conn_open
    /\ ResultIds = <<>>
    /\ run.script = "ultimos_cambios" =>
         /\ run.exit = 0
         /\ run.json = Some([status |-> "database_not_found", urls |-> <<>>,
                             recent_activity |-> <<>>])
    /\ run.script = "generate_github_report" =>
         run.cache_info = <<>> /\ run.error = "none"

\* C2: with no file at the database path every script ends without opening a
\* connection and with an empty result; ultimos_cambios exits 0 with status
\* database_not_found and analyze_cache_database returns the empty mapping.
C2_MissingDatabaseIsNotAnError == [][~db.exists => MissingOutcome']_vars

C2_Witness ==
    /\ run.script = "ultimos_cambios"
    /\ ~db.exists
    /\ run.exit = 0

\* No CacheEntry table with a key column and no snapshots table.
Unrecognized(d) ==
    /\ d.exists
    /\ d.valid
    /\ ~IsKeyVariant(d)
    /\ "snapshots" \notin Tables(d)

\* C3: on a database that matches no variant ultimos_cambios fails (exit code
\* 1, no report written) and what it prints lists the tables found, and the
\* columns of CacheEntry when that table is there.
C3_UnrecognizedSchemaFailsNamingTables ==
    (run.script = "ultimos_cambios" /\ Unrecognized(db))
    => /\ run.exit = 1
       /\ run.json = None
       /\ \E i \in DOMAIN run.stdout :
             /\ run.stdout[i].text \in {"Available tables",
                                        "No recognized table structure found in tables"}
             /\ run.stdout[i].names = Tables(db)
       /\ "CacheEntry" \in Tables(db) =>
             \E i \in DOMAIN run.stdout :
                /\ run.stdout[i].text = "CacheEntry columns"
                /\ run.stdout[i].names = Columns(db, "CacheEntry")
       /\ "CacheEntry" \notin Tables(db) =>
             \E i \in DOMAIN run.stdout :
                /\ run.stdout[i].text = "No recognized table structure found in tables"
                /\ run.stdout[i].names = Tables(db)

C3_Witness ==
    /\ run.script = "ultimos_cambios"
    /\ Unrecognized(db)
    /\ Tables(db) = {"job_state"}
    /\ run.exit = 1

\* What a script hands to its caller: the exit code and report of main, the
\* mapping analyze_cache_database returns.
Handed(o) ==
    CASE o.script = "ultimos_cambios" -> [exit |-> o.exit, json |-> o.json]
      [] o.script = "generate_github_report" -> [cache_info |-> o.cache_info]

\* C4: a database that exists but is corrupt or of no known layout never
\* hands the caller what a missing database hands it.
C4_BrokenDistinctFromMissing ==
    /\ (run.script = "ultimos_cambios" /\ db.exists
          /\ ~(IsKeyVariant(db) \/ IsLegacyVariant(db)))
       => \A now \in Clock : \A m \in UltimosCambiosMain(MissingDb, now) :
             Handed(run) # Handed(m)
    /\ (run.script = "generate_github_report" /\ db.exists /\ ~IsGuidVariant(db))
       => \A m \in analyze_cache_database(MissingDb) : Handed(run) # Handed(m)

\* The most recent timestamp of the rows of an identifier, as ORDER BY ranks it.
LastRank(id) == SqlRank(GroupMaxTs(db, id))

\* C5: the entries of ultimos_cambios and of analyze_cache_changes come in
\* descending order of their most recent timestamp, entries without a
\* timestamp after all the others.
C5_OrderedByTimestampDesc ==
    run.script \in {"ultimos_cambios", "track_changes"}
    => \A i, j \in DOMAIN ResultIds :
          i < j => LastRank(ResultIds[i]) >= LastRank(ResultIds[j])

\* C6: two entries of get_database_info with the same most recent timestamp
\* (or both without one) come in ascending order of their identifier.
C6_TiesByIdentifier ==
    (run.script = "ultimos_cambios" /\ run.json # None)
    => LET urls == run.json[1].urls
       IN  \A i, j \in DOMAIN urls :
              (i < j /\ urls[i].last = urls[j].last)
              => IdRank(urls[i].url) < IdRank(urls[j].url)

\* The display names the hash-keyed reports give, with the identifiers.
Labelled ==
    CASE run.script = "generate_detailed_report" ->
            {[guid |-> run.blocks[i].guid, name |-> run.blocks[i].name] :
                i \in DOMAIN run.blocks}
      [] run.script = "track_changes" ->
            {[guid |-> run.sites[i].guid, name |-> run.sites[i].name] :
                i \in DOMAIN run.sites}
      [] OTHER -> {}

\* The jobs a report knows: url -> name.
KnownJobs ==
    IF run.script = "track_changes" THEN run.jobs ELSE ConfiguredJobs

\* C7: the entry of an identifier that is the SHA-1 of a configured job's URL
\* carries that job's configured name.
C7_HashedJobGetsItsName ==
    \A e \in Labelled : \A u \in DOMAIN KnownJobs :
        e.guid = Some(generate_guid(u)) => e.name = KnownName(KnownJobs[u])

\* C8: the label of an identifier is the name of the job whose URL it equals,
\* else the name of the job whose URL it is the hash of, else an unknown mark
\* with the identifier cut for display.
C8_LabelPriority ==
    \A e \in Labelled :
        e.guid # None =>
            IF e.guid[1] \in DOMAIN KnownJobs
            THEN e.name = KnownName(KnownJobs[e.guid[1]])
            ELSE IF \E u \in DOMAIN KnownJobs : generate_guid(u) = e.guid[1]
            THEN \A u \in DOMAIN KnownJobs :
                    generate_guid(u) = e.guid[1] => e.name = KnownName(KnownJobs[u])
            ELSE /\ e.name.label \in {"Job desconocido", "Sitio desconocido"}
                 /\ e.name.arg = Some(Truncate8(e.guid[1]))

\* The rows of an identifier, and those among them that have data.
RowsOf(id) == {db.rows[i] : i \in {k \in RowIds(db) : db.rows[k].ident = id}}

WithData(rs) == {r \in rs : r.data # None}

MaxRank(rs) == Max({SqlRank(r.timestamp) : r \in rs})

\* C9, generate_detailed_report: latest is a row of the guid with the greatest
\* timestamp; last_successful is absent exactly when no row of the guid has
\* data, else it is a row with data of the greatest timestamp among those,
\* which is not later than latest.
C9_DetailedReport ==
    run.script = "generate_detailed_report"
    => \A i \in DOMAIN run.blocks :
          LET b == run.blocks[i]
              rs == RowsOf(b.guid)
          IN  /\ \E r \in rs : EntryOf(r) = b.latest
              /\ SqlRank(b.latest.timestamp) = MaxRank(rs)
              /\ (b.last_successful = None) <=> (WithData(rs) = {})
              /\ b.last_successful # None =>
                    /\ \E r \in WithData(rs) : EntryOf(r) = b.last_successful[1]
                    /\ SqlRank(b.last_successful[1].timestamp) = MaxRank(WithData(rs))
                    /\ SqlRank(b.last_successful[1].timestamp)
                          <= SqlRank(b.latest.timestamp)

\* C9, analyze_cache_database: the same of latest_* and last_successful_check.
C9_GithubReport ==
    run.script = "generate_github_report"
    => \A i \in DOMAIN run.cache_info :
          LET c == run.cache_info[i]
              rs == RowsOf(c.guid)
          IN  /\ \E r \in rs :
                    /\ SqlRank(r.timestamp) = MaxRank(rs)
                    /\ c.latest_check = DatetimeOf(r.timestamp)
                    /\ c.latest_status = StatusOf(r)
                    /\ c.latest_tries = r.tries
              /\ c.has_last_successful <=> (WithData(rs) # {})
              /\ c.has_last_successful =>
                    /\ \E r \in WithData(rs) :
                          /\ SqlRank(r.timestamp) = MaxRank(WithData(rs))
                          /\ c.last_successful_check = DatetimeOf(r.timestamp)
                    /\ SqlRank(c.last_successful_check) <= SqlRank(c.latest_check)
              /\ ~c.has_last_successful => c.last_successful_check = None

\* C9: for each identifier the most recent record and the most recent record
\* with data are the ones selected; the latter is absent exactly when no
\* record has data and is never later than the former.
C9_LatestAndLastSuccessful == C9_DetailedReport /\ C9_GithubReport

\* A failed fetch after a successful one: the two selections differ.
C9_Witness ==
    /\ run.script = "generate_detailed_report"
    /\ \E i \in DOMAIN run.blocks :
          /\ run.blocks[i].last_successful # None
          /\ run.blocks[i].latest.status = "ERROR"
          /\ run.blocks[i].last_successful[1].timestamp # run.blocks[i].latest.timestamp

\* C10: no script ends with the connection it opened still open.
C10_ConnectionClosedOnEveryPath ==
    run.script # "none" => ~run.conn_open

\* A timestamp no date can be formatted from: NULL, or past what datetime holds.
Malformed(ts) == ts = None \/ ~Representable(ts[1])

\* C11: a row with a malformed timestamp never stops a run on a database of
\* the script's variant: every identifier still has its entry, and an entry
\* whose timestamp is malformed carries the marker of an unknown time.
C11_MalformedTimestampIsAbsent ==
    /\ (run.script = "ultimos_cambios" /\ db.valid
          /\ (IsLegacyVariant(db)
                \/ (IsKeyVariant(db) /\ "timestamp" \in Columns(db, "CacheEntry"))))
       => /\ run.exit = 0
          /\ run.json # None
          /\ {run.json[1].urls[i].url : i \in DOMAIN run.json[1].urls}
                \ {None} = Idents(db) \ {None}
          /\ \A i \in DOMAIN run.json[1].urls :
                Malformed(run.json[1].urls[i].last)
                => run.json[1].urls[i].formatted.kind = "Unknown"
    /\ (run.script = "generate_github_report" /\ IsGuidVariant(db))
       => /\ run.error = "none"
          /\ {run.cache_info[i].guid : i \in DOMAIN run.cache_info} = Idents(db)
          /\ \A i \in DOMAIN run.cache_info :
                Malformed(GroupMaxTs(db, run.cache_info[i].guid))
                => run.cache_info[i].latest_check = None
    /\ (run.script = "generate_detailed_report" /\ IsGuidVariant(db)
          /\ None \notin Idents(db))
       => /\ run.error = "none"
          /\ \A i \in DOMAIN run.blocks :
                Malformed(run.blocks[i].latest.timestamp)
                => run.blocks[i].ultima_verificacion
                      \in {"Sin datos", "Fecha invalida"}
    /\ (run.script = "track_changes" /\ IsGuidVariant(db)
          /\ "url" \in Columns(db, "CacheEntry"))
       => /\ run.error = "none"
          /\ \A i \in DOMAIN run.sites :
                Malformed(GroupMaxTs(db, run.sites[i].guid))
                => run.sites[i].last_check = "Sin datos"

\* C12: every table and column a data query of a run names was seen before in
\* the table list or the column list the run read from the database.
C12_QueriesOnlyWhatWasObserved ==
    run.script # "none" => run.queried \subseteq run.observed

\* The known variants, in the order of the dispatch.
MatchesKeyTimestamp(d) ==
    "CacheEntry" \in Tables(d) /\ {"key", "timestamp"} \subseteq Columns(d, "CacheEntry")

MatchesKeyOnly(d) ==
    "CacheEntry" \in Tables(d) /\ "key" \in Columns(d, "CacheEntry")

MatchesLegacy(d) ==
    "snapshots" \in Tables(d) /\ {"url", "timestamp"} \subseteq Columns(d, "snapshots")

\* C13: when the database matches at least one known variant,
\* get_database_info succeeds, reading it as the first variant that matches.
C13_FirstMatchingVariantIsUsed ==
    (run.script = "ultimos_cambios" /\ db.valid
       /\ (MatchesKeyTimestamp(db) \/ MatchesKeyOnly(db) \/ MatchesLegacy(db)))
    => /\ run.data # None
       /\ run.queried =
             IF MatchesKeyTimestamp(db) THEN {"CacheEntry", "key", "timestamp"}
             ELSE IF MatchesKeyOnly(db) THEN {"CacheEntry", "key"}
             ELSE {"snapshots", "url", "timestamp"}

\* C14: no step of any script changes the cache database: rows, tables and
\* the existence of the file stay as they were.
C14_CacheIsReadOnly == [][db' = db]_vars

\* A script has connected to a database that holds rows and reported on them.
C14_Witness ==
    /\ run.script = "generate_detailed_report"
    /\ run.connected
    /\ run.error = "none"
    /\ Len(db.rows) > 0

\* C15: a report that completes shows every configured job, also one that has
\* no row in the cache, and shows every identifier that matches no job under
\* an unknown name.
C15_BothMismatchesAreReported ==
    (run.script \in {"generate_detailed_report", "track_changes"}
       /\ run.error = "none")
    => /\ \A u \in DOMAIN KnownJobs :
             \E e \in Labelled : e.name = KnownName(KnownJobs[u])
       /\ \A e \in Labelled :
             (e.guid # None
                /\ \A u \in DOMAIN KnownJobs :
                      e.guid[1] # u /\ e.guid[1] # generate_guid(u))
             => e.name.label \in {"Job desconocido", "Sitio desconocido"}

\* The database is there and the first query of the script fails on it.
QueryFails ==
    /\ db.exists
    /\ CASE run.script = "ultimos_cambios" -> ~db.valid
         [] run.script = "track_changes" ->
               \/ ~IsGuidVariant(db)
               \/ Len(db.rows) > 0 /\ "url" \notin Columns(db, "CacheEntry")
         [] run.script \in {"generate_detailed_report", "generate_github_report"} ->
               ~IsGuidVariant(db)
         [] OTHER -> FALSE

C17_CacheInfoOfTheSiteItself ==
    run.script = "generate_github_report"
    => \A i \in DOMAIN run.final_report :
          LET e == run.final_report[i]
          IN  e.cache_info # None
              => e.cache_info[1].guid \in {Some(e.url), Some(generate_guid(e.url))}

\* C18: a second run of ultimos_cambios on the same database, whenever it
\* happens, can give the entries the first gave: the same last_changes and
\* recent_activity, the same values in the report.
C18_SecondRunGivesTheSame ==
    (run.script = "ultimos_cambios" /\ run.data # None)
    => \A now \in Clock : \E o \in UltimosCambiosMain(db, now) :
          o.data = run.data /\ o.json = run.json

\* The single row of the round trip: identifier, valid timestamp, no retry, data.
SingleGoodRow ==
    /\ IsGuidVariant(db)
    /\ Len(db.rows) = 1
    /\ db.rows[1].ident # None
    /\ db.rows[1].timestamp # None
    /\ Representable(db.rows[1].timestamp[1])
    /\ db.rows[1].tries = 0
    /\ db.rows[1].data # None

\* C19: the database of one good row gives one entry with status OK, the
\* row's timestamp as a date, and no retry.
C19_SingleRowRoundTrip ==
    /\ (run.script = "generate_detailed_report" /\ SingleGoodRow)
       => /\ Len(run.blocks) = 1
          /\ run.blocks[1].guid = db.rows[1].ident
          /\ run.blocks[1].latest.status = "OK"
          /\ run.blocks[1].latest.timestamp = db.rows[1].timestamp
          /\ run.blocks[1].ultima_verificacion = FormatDMY(db.rows[1].timestamp[1])
          /\ run.blocks[1].latest.tries = 0
    /\ (run.script = "track_changes" /\ SingleGoodRow)
       => /\ Len(run.sites) = 1
          /\ run.sites[1].guid = db.rows[1].ident
          /\ run.sites[1].status = [ok |-> TRUE, intentos |-> None]
          /\ run.sites[1].last_check = FormatDMY(db.rows[1].timestamp[1])

\* C20: with no job configuration to load the analysis still completes, and
\* every identifier of the cache is reported under its URL or raw identifier.
C20_JobListIsOptional ==
    (run.script = "track_changes" /\ run.file = "missing" /\ IsGuidVariant(db))
    => /\ run.error = "none"
       /\ {run.sites[i].guid : i \in DOMAIN run.sites} = Idents(db)
       /\ \A i \in DOMAIN run.sites :
             \E id \in {run.sites[i].url.value, run.sites[i].guid} \ {None} :
                run.sites[i].name = KnownName(id[1])

\* The rows of the cache table that carry identifier id, by position.
RowIdsOf(id) == {k \in RowIds(db) : db.rows[k].ident = id}

\* C25: every site of analyze_cache_changes describes a latest row of its
\* guid (one of greatest timestamp): status tells whether that row has data,
\* data_size is the length of its data (0 when null), total_checks is the
\* number of rows of the guid.
C25_FieldsDescribeLatestRow ==
    (run.script = "track_changes" /\ run.error = "none")
    => \A i \in DOMAIN run.sites :
          LET s == run.sites[i]
          IN  /\ s.total_checks = Cardinality(RowIdsOf(s.guid))
              /\ \E k \in RowIdsOf(s.guid) :
                    LET r == db.rows[k]
                    IN  /\ SqlRank(r.timestamp) = MaxRank(RowsOf(s.guid))
                        /\ s.status.ok = (r.data # None)
                        /\ s.data_size = (IF r.data = None THEN 0 ELSE r.data[1])

(***************************************************************************)
(* Properties of the hooks (HooksSpec).                                    *)
(***************************************************************************)
\* C21: the changes of every key hold at most 50 records and are, in order,
\* the last min(n, 50) of the n records appended for the key.
C21_BoundedAppendOnlyLog ==
    \A k \in KeysWithChanges(history) :
       LET a == appended[k]
           n == Len(a)
           m == IF n < RetentionCap THEN n ELSE RetentionCap
       IN  /\ Len(history[k].changes) <= RetentionCap
           /\ history[k].changes = [i \in 1..m |-> a[n - m + i]]

\* A hook recorded to a key that had 50 records: the oldest was dropped.
C21_Witness ==
    /\ hook.hook = "filter_result"
    /\ hook.recorded
    /\ Len(appended[hook.key]) > RetentionCap
    /\ Len(history[hook.key].changes) = RetentionCap

\* The records of a list of changes that count as a check without changes,
\* and those that count as a processing with content.
UnchangedAt(changes) == {i \in DOMAIN changes : changes[i].type = "unchanged"}

ProcessedAt(changes) ==
    {i \in DOMAIN changes : /\ changes[i].type \in {"processed", "new"}
                            /\ changes[i].content_length > 0}

\* C22: the last_unchanged of a site in the status report_finished writes is
\* the readable date of its most recent 'unchanged' record; without one, of
\* its most recent 'processed' or 'new' record with content; without one of
\* those either, 'No disponible'.
C22_LastUnchanged ==
    (hook.hook = "report_finished" /\ hook.current_status # None)
    => \A k \in DOMAIN hook.current_status[1] :
          LET changes == IF k \in KeysWithChanges(history)
                         THEN history[k].changes ELSE <<>>
              u == UnchangedAt(changes)
              p == ProcessedAt(changes)
          IN  hook.current_status[1][k].last_unchanged =
                 IF u # {} THEN changes[Max(u)].readable_date
                 ELSE IF p # {} THEN changes[Max(p)].readable_date
                 ELSE Literal("No disponible")

\* The report of a key with two 'unchanged' records and one with content in
\* between: the date is that of the second 'unchanged' record.
C22_Witness ==
    /\ hook.hook = "report_finished"
    /\ hook.current_status # None
    /\ U_BOE \in KeysWithChanges(history)
    /\ Cardinality(UnchangedAt(history[U_BOE].changes)) = 2
    /\ ProcessedAt(history[U_BOE].changes) # {}
    /\ hook.current_status[1][U_BOE].last_unchanged =
          history[U_BOE].changes[3].readable_date

\* C26: after every record to a key, the key's last_change is the timestamp
\* of the last of its changes and its last_change_readable is that record's
\* readable date, also when the list was trimmed to 50.
C26_LastChangeIsLastRecord ==
    (hook.hook \in {"filter_result", "job_failed", "record_change"}
     /\ hook.recorded)
    => LET e == history[hook.key]
           last == e.changes[Len(e.changes)]
       IN  /\ e.last_change = last.timestamp
           /\ e.last_change_readable = last.readable_date

\* A record to a key whose list was trimmed, with the second reading of the
\* clock in a later second than the first.
C26_Witness ==
    /\ hook.hook = "filter_result"
    /\ hook.recorded
    /\ Len(appended[hook.key]) > RetentionCap
    /\ history[hook.key].last_change.at # history[hook.key].last_change_readable.at
    /\ history[hook.key].last_change.at[1] \div 2
          # history[hook.key].last_change_readable.at[1]

\* C27: a hook that records changes the entry of its key only, and it leaves
\* the name and the first_seen of every key that exists as they were.
C27_OnlyTheKeyRecordedTo ==
    [][hook'.hook \in {"filter_result", "job_failed", "record_change"}
       => \A k \in DOMAIN history :
             /\ k \in DOMAIN history'
             /\ history'[k].name = history[k].name
             /\ history'[k].first_seen = history[k].first_seen
             /\ k # hook'.key => history'[k] = history[k]]_vars

\* Two keys, and a second record to the first after the second was created.
C27_Witness ==
    /\ hook.hook = "filter_result"
    /\ hook.recorded
    /\ hook.key = U_BOE
    /\ U_OPE \in KeysWithChanges(history)
    /\ Len(history[U_BOE].changes) > 1
    /\ history[U_BOE].changes[Len(history[U_BOE].changes)].timestamp
          # history[U_BOE].first_seen
    /\ history[U_OPE].last_change.at[1] >= FirstInstant

\* C28: filter_result returns the result it was given, whether the record
\* was made or raised, and no hook lets an exception out.
C28_HooksNeverPropagate ==
    /\ hook.hook = "filter_result"
       => hook.returned = hook.given /\ ~hook.raised
    /\ hook.hook \in {"job_failed", "job_list_finished", "report_finished"}
       => ~hook.raised

(***************************************************************************)
(* Properties of the scripts that work on files (FilesSpec).               *)
(***************************************************************************)
\* The log files analyze_recent_logs analyses: the five newest, those that
\* can be read.
Analysed ==
    {i \in DOMAIN files.logs :
        i > Len(files.logs) - AnalysedLogs /\ ~files.logs[i].raises}

\* The analysed files that process the URL, with an error or without.
ProcessedIn(url, with_error) ==
    {i \in Analysed :
        \E k \in DOMAIN files.logs[i].processing :
           /\ files.logs[i].processing[k][1] = url
           /\ (files.logs[i].processing[k][2] \in files.logs[i].errors) = with_error}

\* C24: the last_successful_check of a URL is the instant of the most recent
\* analysed log file that processes it without error, its last_error that of
\* the most recent one that processes it with an error.
C24_MostRecentLogFile ==
    run.script = "analyze_recent_logs"
    => \A url \in DOMAIN run.sites_status :
          LET s == run.sites_status[url]
              ok == ProcessedIn(url, FALSE)
              err == ProcessedIn(url, TRUE)
          IN  /\ s.last_successful_check = IF ok = {} THEN None ELSE Some(Max(ok))
              /\ s.last_error = IF err = {} THEN None ELSE Some(Max(err))

\* The number of items of a status in a list of recent statuses.
CountStatus(recent_status, status) ==
    Cardinality({i \in DOMAIN recent_status : recent_status[i].status = status})

\* C29: for every URL of analyze_recent_logs, 0 <= error_count <=
\* total_checks, recent_status has total_checks items of which error_count
\* are 'ERROR', and last_successful_check is set exactly when an item is 'OK'.
C29_CountersAreConsistent ==
    run.script = "analyze_recent_logs"
    => \A url \in DOMAIN run.sites_status :
          LET s == run.sites_status[url]
          IN  /\ 0 <= s.error_count
              /\ s.error_count <= s.total_checks
              /\ Len(s.recent_status) = s.total_checks
              /\ CountStatus(s.recent_status, "ERROR") = s.error_count
              /\ (s.last_successful_check # None)
                 <=> (CountStatus(s.recent_status, "OK") > 0)

\* More than five log files, and a URL with errors and successes among the
\* five analysed.
C29_Witness ==
    /\ run.script = "analyze_recent_logs"
    /\ Len(files.logs) > AnalysedLogs
    /\ U_OPE \in DOMAIN run.sites_status
    /\ run.sites_status[U_OPE].error_count = 2
    /\ run.sites_status[U_OPE].total_checks = 4
    /\ U_BOE \in DOMAIN run.sites_status
    /\ run.sites_status[U_BOE].last_successful_check = None

\* The number of separator lines of a YAML text.
Separators(lines) == Cardinality({i \in DOMAIN lines : lines[i] = Separator})

\* C23: extract_jobs writes the jobs of a list that is not empty as one
\* document each, with a separator between two jobs and none after the last,
\* and reading the file back as a stream of documents gives the list; when
\* 'jobs' is absent or empty the output is neither opened nor modified; and
\* an exception ends the process with status 1.
C23_JobsRoundTrip ==
    [][run'.script = "extract_jobs"
       => LET cfg == files.config
              listed == cfg.kind = "jobs" /\ cfg.jobs # <<>>
          IN  /\ (listed /\ files.urls_dir)
                 => /\ run'.opened
                    /\ files'.urls # None
                    /\ Separators(files'.urls[1]) = Len(cfg.jobs) - 1
                    /\ files'.urls[1][Len(files'.urls[1])] # Separator
                    /\ yaml_safe_load_all(files'.urls[1]) = cfg.jobs
              /\ (cfg.kind \in {"no_jobs", "null_jobs", "jobs"} /\ ~listed)
                 => ~run'.opened /\ files'.urls = files.urls
              /\ run'.raised => run'.exit = 1]_vars

\* Two jobs were written over an older file, one of them with a value of
\* several lines, a line of which is '---'.
C23_Witness ==
    /\ run.script = "extract_jobs"
    /\ run.exit = 0
    /\ run.opened
    /\ Len(files.config.jobs) = 2
    /\ files.config.jobs[1] = Mapping({<<"name", <<"a", "---", "b">>>>})
    /\ files.config.jobs[2] # NullJob
    /\ files.urls # None
    /\ Separators(files.urls[1]) = 1

====
